---- MODULE Spec2Model ----
(***************************************************************************)
(* Carton allocation and inventory booking of the order view               *)
(* (src/unnamed/part_001, the current src/views/Orders.js).                *)
(*                                                                         *)
(* Five specifications share this module:                                  *)
(*   SpecSelect     selectCartonsForAuto applied to bounded candidate      *)
(*                  lists                                                  *)
(*   SpecExpand     expandAutoItems applied to bounded rows and snapshots  *)
(*   SpecEditor     the handlers of the item editor, one at a time, unit   *)
(*                  price included, then one run of create or edit         *)
(*   SpecInventory  one run of a handler on a loaded session while the     *)
(*                  inventory view changes carton statuses                 *)
(*   Spec           one browser session of the Orders component: create,   *)
(*                  edit and delete against the repository, each await a   *)
(*                  step.  The rows of a submission are rows the editor    *)
(*                  handlers produce; in Spec the user never types a unit  *)
(*                  price (handleUnitPriceChange, part_001:568-580).       *)
(***************************************************************************)
EXTENDS Integers, Sequences, FiniteSets, TLC

VARIABLES
    sel,        \* SpecSelect: the input of selectCartonsForAuto and its result
    exp,        \* SpecExpand: the input of expandAutoItems and its results
    dbCartons,  \* the repository's cartons table
    dbOrders,   \* the repository's orders table, by order id
    cartons,    \* the component's carton snapshot (useState, part_001:819)
    orders,     \* the component's order list (useState, part_001:818)
    items,      \* the rows of the create form (part_001:835)
    edit,       \* the edit modal: editingOrder, editItems, originalEditItems
    op,         \* the handler in flight: its position, closure and locals
    failures,   \* the persistence calls that have failed so far
    runs,       \* the handlers that passed validation so far, retries apart
    retry       \* the handler a persistence error has just ended, if any, and
                \* the calls it had issued

pureVars == <<sel, exp>>
budgetVars == <<failures, runs, retry>>
sessionVars == <<dbCartons, dbOrders, cartons, orders, items, edit, op, failures, runs,
                 retry>>
vars == <<sel, exp, dbCartons, dbOrders, cartons, orders, items, edit, op, failures,
          runs, retry>>

(***************************************************************************)
(* Bounds of the model.                                                    *)
(***************************************************************************)
MaxCands == 4           \* longest candidate list given to selectCartonsForAuto
MaxDesired == 6         \* largest desired quantity given to selectCartonsForAuto
MaxExpandRows == 2      \* longest row list given to expandAutoItems in SpecExpand
MaxRows == 2            \* most rows an item editor holds in Spec
MaxOrders == 2          \* most orders inserted in one session of Spec
MaxQty == 2             \* largest quantity typed into a quantity field in Spec
MaxFailures == 1        \* most persistence calls that fail in one session of Spec
MaxRuns == 2            \* most handlers of one session of Spec that pass validation,
                        \* a handler started again after a persistence error apart
UnitValues == {0, 1, 2} \* units_remaining of a candidate carton

(***************************************************************************)
(* Generic helpers on sequences.                                           *)
(***************************************************************************)
Range(s) == {s[i] : i \in DOMAIN s}

RECURSIVE SumUnitsFrom(_, _)
\* sum of units_remaining of s[i..Len(s)]
SumUnitsFrom(s, i) ==
    IF i > Len(s) THEN 0 ELSE s[i].units_remaining + SumUnitsFrom(s, i + 1)

SumUnits(s) == SumUnitsFrom(s, 1)

(***************************************************************************)
(* selectCartonsForAuto, part_001:78-116.                                  *)
(***************************************************************************)
\* Number(c.units_remaining || 0)
Units(c) == c.units_remaining

\* a comparator that puts the smallest carton first
CompareCartons_Ascending(a, b) ==
    IF Units(b) # Units(a) THEN Units(a) - Units(b) ELSE a.id - b.id

\* a comparator without the tie-break on id
CompareCartons_NoTieBreak(a, b) == Units(b) - Units(a)

\* the comparator of the sort, part_001:84-89: negative when a goes first
CompareCartons(a, b) ==
    IF Units(b) # Units(a) THEN Units(b) - Units(a) ELSE a.id - b.id

RECURSIVE InsertSorted(_, _, _)
\* c inserted into the sorted sequence s, behind every element that does not
\* compare greater than c (Array.prototype.sort is stable)
InsertSorted(s, c, i) ==
    IF i > Len(s) THEN Append(s, c)
    ELSE IF CompareCartons(s[i], c) > 0
         THEN SubSeq(s, 1, i - 1) \o <<c>> \o SubSeq(s, i, Len(s))
         ELSE InsertSorted(s, c, i + 1)

RECURSIVE SortFrom(_, _, _)
SortFrom(s, i, acc) ==
    IF i > Len(s) THEN acc ELSE SortFrom(s, i + 1, InsertSorted(acc, s[i], 1))

\* [...cartonsForProduct].sort(...)
SortCartons(s) == SortFrom(s, 1, <<>>)

RECURSIVE GreedyFrom_OffByOne(_, _, _, _, _)
\* the loop leaving only once the sum exceeds the desired quantity
GreedyFrom_OffByOne(sorted, i, desiredUnits, selected, sum) ==
    IF i > Len(sorted) \/ sum > desiredUnits
    THEN [selectedCartons |-> selected, totalUnits |-> sum]
    ELSE IF Units(sorted[i]) <= 0
         THEN GreedyFrom_OffByOne(sorted, i + 1, desiredUnits, selected, sum)
         ELSE GreedyFrom_OffByOne(sorted, i + 1, desiredUnits,
                         Append(selected, sorted[i]), sum + Units(sorted[i]))

RECURSIVE GreedyFrom(_, _, _, _, _)
\* the for loop of part_001:103-109 from position i on
GreedyFrom(sorted, i, desiredUnits, selected, sum) ==
    IF i > Len(sorted) \/ sum >= desiredUnits
    THEN [selectedCartons |-> selected, totalUnits |-> sum]
    ELSE IF Units(sorted[i]) <= 0
         THEN GreedyFrom(sorted, i + 1, desiredUnits, selected, sum)
         ELSE GreedyFrom(sorted, i + 1, desiredUnits,
                         Append(selected, sorted[i]), sum + Units(sorted[i]))

\* the value null of the selection result
NullSelection == [ok |-> FALSE, selectedCartons |-> <<>>, totalUnits |-> 0]

\* selectCartonsForAuto without a failure for the empty list
selectCartonsForAuto_EmptyOk(cartonsForProduct, desiredUnits) ==
    LET sorted == SortCartons(cartonsForProduct)
        g == GreedyFrom(sorted, 1, desiredUnits, <<>>, 0)
    IN  IF Len(cartonsForProduct) > 0 /\ g.totalUnits < desiredUnits
        THEN NullSelection
        ELSE [ok |-> TRUE, selectedCartons |-> g.selectedCartons,
              totalUnits |-> g.totalUnits]

selectCartonsForAuto(cartonsForProduct, desiredUnits) ==
    IF Len(cartonsForProduct) = 0 THEN NullSelection
    ELSE LET sorted == SortCartons(cartonsForProduct)
             totalAvailable == SumUnits(sorted)
         IN  IF totalAvailable < desiredUnits THEN NullSelection
             ELSE LET g == GreedyFrom(sorted, 1, desiredUnits, <<>>, 0)
                  IN  IF g.totalUnits < desiredUnits THEN NullSelection
                      ELSE [ok |-> TRUE,
                            selectedCartons |-> g.selectedCartons,
                            totalUnits |-> g.totalUnits]

(***************************************************************************)
(* Line items.  A row of the editor and an item of an order's payload are  *)
(* records [mode, carton_id, product_id, quantity, unit_price, line_total].*)
(* carton_id 0 stands for "" (no carton selected), product_id 0 for null.  *)
(* The uid of a row (Date.now() + Math.random()) only identifies the row   *)
(* in the editor and is dropped by the payload maps (part_001:1091-1098,   *)
(* 1269-1276); rows are identified by their position instead.              *)
(***************************************************************************)
\* unit_price null or undefined (part_001:165)
NoPrice == -1

\* products as fetched on load (part_001:878): id and unit_selling_price
ProductList ==
    << [id |-> 1, unit_selling_price |-> 2], [id |-> 2, unit_selling_price |-> 3] >>

\* getUnitPriceForProductFromList, part_001:63-67
getUnitPriceForProductFromList(products, productId) ==
    IF \E i \in DOMAIN products : products[i].id = productId
    THEN LET p == products[CHOOSE i \in DOMAIN products :
                              /\ products[i].id = productId
                              /\ \A j \in 1..(i - 1) : products[j].id # productId]
         IN  IF p.unit_selling_price # 0 THEN p.unit_selling_price ELSE 0
    ELSE 0

\* cartons.find((c) => c.id === id) succeeds
HasCarton(snapshot, id) == \E i \in DOMAIN snapshot : snapshot[i].id = id

\* cartons.findIndex((c) => c.id === id)
CartonIndex(snapshot, id) ==
    CHOOSE i \in DOMAIN snapshot :
        /\ snapshot[i].id = id
        /\ \A j \in 1..(i - 1) : snapshot[j].id # id

FindCarton(snapshot, id) == snapshot[CartonIndex(snapshot, id)]

RECURSIVE FilterForProduct_AnyStatus(_, _, _)
\* the candidates with the status of a carton left unread
FilterForProduct_AnyStatus(snapshot, productId, i) ==
    IF i > Len(snapshot) THEN <<>>
    ELSE IF snapshot[i].product_id = productId /\ Units(snapshot[i]) > 0
         THEN <<snapshot[i]>> \o FilterForProduct_AnyStatus(snapshot, productId, i + 1)
         ELSE FilterForProduct_AnyStatus(snapshot, productId, i + 1)

RECURSIVE FilterForProduct(_, _, _)
\* cartons.filter(product_id === productId && status === "received" &&
\*                units_remaining > 0), part_001:169-174, from position i on
FilterForProduct(snapshot, productId, i) ==
    IF i > Len(snapshot) THEN <<>>
    ELSE IF /\ snapshot[i].product_id = productId
            /\ snapshot[i].status = "received"
            /\ Units(snapshot[i]) > 0
         THEN <<snapshot[i]>> \o FilterForProduct(snapshot, productId, i + 1)
         ELSE FilterForProduct(snapshot, productId, i + 1)

\* the messages thrown by expandAutoItems
ErrAutoNoCarton == "Auto items must have a carton selected."
ErrAutoQuantity == "Auto items must have a valid quantity."
ErrCartonNotFound == "Selected carton not found."
ErrProductNotFound == "Product not found for selected carton."
ErrNotEnoughUnits == "Not enough cartons available for this product: requested more units than are available."
ErrCannotSatisfy == "Not enough cartons available for this product: available stock cannot satisfy it."

\* an item whose line total forgets the quantity
AutoItem_TotalIsPrice(c, productId, unitPrice) ==
    [mode |-> "carton", carton_id |-> c.id, product_id |-> productId,
     quantity |-> Units(c), unit_price |-> unitPrice, line_total |-> unitPrice]

\* an item that keeps the mode of the row it comes from
AutoItem_KeepMode(c, productId, unitPrice) ==
    [mode |-> "auto", carton_id |-> c.id, product_id |-> productId,
     quantity |-> Units(c), unit_price |-> unitPrice,
     line_total |-> Units(c) * unitPrice]

\* the item pushed for a selected carton, part_001:194-206
AutoItem(c, productId, unitPrice) ==
    [mode |-> "carton", carton_id |-> c.id, product_id |-> productId,
     quantity |-> Units(c), unit_price |-> unitPrice,
     line_total |-> Units(c) * unitPrice]

\* the body of rows.forEach for one row r, part_001:135-207:
\* [err |-> the message thrown or "", items |-> what the row pushes]
ExpandRow(r, snapshot, products) ==
    IF r.mode # "auto" THEN [err |-> "", items |-> <<r>>]
    ELSE IF r.carton_id = 0 THEN [err |-> ErrAutoNoCarton, items |-> <<>>]
    ELSE IF r.quantity <= 0 THEN [err |-> ErrAutoQuantity, items |-> <<>>]
    ELSE IF ~HasCarton(snapshot, r.carton_id)
         THEN [err |-> ErrCartonNotFound, items |-> <<>>]
    ELSE LET baseCarton == FindCarton(snapshot, r.carton_id)
             productId == IF baseCarton.product_id # 0 THEN baseCarton.product_id
                          ELSE r.product_id
             unitPrice == IF r.unit_price # NoPrice THEN r.unit_price
                          ELSE getUnitPriceForProductFromList(products, productId)
             cartonsForProduct == FilterForProduct(snapshot, productId, 1)
             totalAvailable == SumUnits(cartonsForProduct)
             selection == selectCartonsForAuto(cartonsForProduct, r.quantity)
         IN  IF productId = 0 THEN [err |-> ErrProductNotFound, items |-> <<>>]
             ELSE IF totalAvailable < r.quantity
                  THEN [err |-> ErrNotEnoughUnits, items |-> <<>>]
             ELSE IF ~selection.ok THEN [err |-> ErrCannotSatisfy, items |-> <<>>]
             ELSE [err |-> "",
                   items |-> [i \in 1..Len(selection.selectedCartons) |->
                                AutoItem(selection.selectedCartons[i],
                                         productId, unitPrice)]]

RECURSIVE ExpandFrom(_, _, _, _, _)
\* rows.forEach from row i on, with the items pushed so far
ExpandFrom(rows, i, snapshot, products, expanded) ==
    IF i > Len(rows) THEN [err |-> "", items |-> expanded]
    ELSE LET one == ExpandRow(rows[i], snapshot, products)
         IN  IF one.err # "" THEN [err |-> one.err, items |-> <<>>]
             ELSE ExpandFrom(rows, i + 1, snapshot, products, expanded \o one.items)

\* expandAutoItems, part_001:132-210
expandAutoItems(rows, snapshot, products) ==
    ExpandFrom(rows, 1, snapshot, products, <<>>)

(***************************************************************************)
(* The session: state after the component has mounted and fetchAll         *)
(* (part_001:866-891) has loaded orders, cartons and products.             *)
(***************************************************************************)
\* the cartons table when the session starts
InitCartons ==
    << [id |-> 1, product_id |-> 1, units_remaining |-> 2, status |-> "received",
        is_open |-> TRUE],
       [id |-> 2, product_id |-> 1, units_remaining |-> 1, status |-> "received",
        is_open |-> FALSE] >>

\* the row addRow appends and the create form starts with, part_001:443-454, 835-845
BlankRow ==
    [mode |-> "carton", carton_id |-> 0, product_id |-> 0, quantity |-> 0,
     unit_price |-> 0, line_total |-> 0]

NoOrder ==
    [id |-> 0, items |-> <<>>, subtotal |-> 0, delivery_charge |-> 0,
     total_amount |-> 0, invoice_url |-> FALSE]

\* no handler in flight
OpIdle ==
    [kind |-> "none", pc |-> "idle", snap |-> <<>>, rows |-> <<>>, prev |-> <<>>,
     payload |-> <<>>, order |-> NoOrder, fee |-> 0, adj |-> <<>>, todo |-> <<>>,
     updated |-> <<>>, bookIds |-> <<>>, unbookIds |-> <<>>, err |-> "",
     calls |-> <<>>, preCartons |-> <<>>, preOrders |-> <<>>]

EditClosed ==
    [open |-> FALSE, editingOrder |-> NoOrder, editItems |-> <<>>,
     originalEditItems |-> <<>>]

SessionInit ==
    /\ dbCartons = InitCartons
    /\ dbOrders = <<>>
    /\ cartons = InitCartons
    /\ orders = <<>>
    /\ items = <<BlankRow>>
    /\ edit = EditClosed
    /\ op = OpIdle
    /\ failures = 0
    /\ runs = 0
    /\ retry = [kind |-> "none", id |-> 0, calls |-> <<>>]

(***************************************************************************)
(* OrderItemsEditor, part_001:428-591.  Each handler is a transformation   *)
(* of the editor's rows; the create form edits items, the modal editItems. *)
(***************************************************************************)
\* getUnitPriceForProduct, part_001:903-904
getUnitPriceForProduct(productId) ==
    getUnitPriceForProductFromList(ProductList, productId)

\* addRow, part_001:437-455 (the 25-row limit lies beyond MaxRows)
addRow(rows) == Append(rows, BlankRow)

\* removeRow, part_001:457-459
removeRow(rows, k) == SubSeq(rows, 1, k - 1) \o SubSeq(rows, k + 1, Len(rows))

\* handleModeChange, part_001:469-486
handleModeChange(rows, k, newMode) ==
    [rows EXCEPT ![k] = [BlankRow EXCEPT !.mode = newMode]]

\* availableCartonsFor, part_001:582-591: the ids the base list offers
availableCartonsFor(mode, snapshot) ==
    IF mode \in {"carton", "auto"}
    THEN {snapshot[i].id : i \in {j \in DOMAIN snapshot : snapshot[j].status = "received"}}
    ELSE {snapshot[i].id : i \in {j \in DOMAIN snapshot :
                                    /\ snapshot[j].status = "received"
                                    /\ snapshot[j].is_open}}

\* the options of a row's carton dropdown, part_001:618-634, 717-730: "" (0),
\* the base list, and the row's selected carton when the snapshot holds it
CartonOptions(row, snapshot) ==
    {0} \cup availableCartonsFor(row.mode, snapshot)
        \cup {id \in {row.carton_id} : id # 0 /\ HasCarton(snapshot, id)}

\* handleCartonChange, part_001:488-526
handleCartonChange(rows, k, cartonId, snapshot) ==
    IF cartonId = 0 \/ ~HasCarton(snapshot, cartonId)
    THEN [rows EXCEPT ![k] = [BlankRow EXCEPT !.mode = rows[k].mode]]
    ELSE LET carton == FindCarton(snapshot, cartonId)
             unitPrice == getUnitPriceForProduct(carton.product_id)
             qty == IF rows[k].mode = "carton" THEN Units(carton)
                    ELSE IF rows[k].mode = "loose" THEN 1 ELSE 0
         IN  [rows EXCEPT ![k] =
                 [mode |-> rows[k].mode, carton_id |-> cartonId,
                  product_id |-> carton.product_id, quantity |-> qty,
                  unit_price |-> unitPrice, line_total |-> qty * unitPrice]]

\* handleQtyChange, part_001:528-566
handleQtyChange(rows, k, qtyNum, snapshot) ==
    LET row == rows[k] IN
    IF row.mode = "auto"
    THEN LET clamped == IF qtyNum < 1 THEN 1 ELSE qtyNum
         IN  [rows EXCEPT ![k].quantity = clamped,
                          ![k].line_total = clamped * row.unit_price]
    ELSE IF row.carton_id = 0
    THEN [rows EXCEPT ![k].quantity = 0, ![k].line_total = 0]
    ELSE LET maxQty == IF HasCarton(snapshot, row.carton_id)
                       THEN Units(FindCarton(snapshot, row.carton_id)) ELSE 0
             low == IF qtyNum < 1 THEN 1 ELSE qtyNum
             clamped == IF maxQty > 0 /\ low > maxQty THEN maxQty ELSE low
         IN  [rows EXCEPT ![k].quantity = clamped,
                          ![k].line_total = clamped * row.unit_price]

handleUnitPriceChange_KeepTotal(rows, k, unitPriceNum) ==
    [rows EXCEPT ![k].unit_price = unitPriceNum]

\* handleUnitPriceChange, part_001:568-580
handleUnitPriceChange(rows, k, unitPriceNum) ==
    [rows EXCEPT ![k].unit_price = unitPriceNum,
                 ![k].line_total = rows[k].quantity * unitPriceNum]

\* what the user types into a unit price field
EditorPrices == {3}

Forms == {"create", "edit"}

\* the rows the editor of form f shows
FormRows(f) == IF f = "create" THEN items ELSE edit.editItems

\* setItems / setEditItems
SetFormRows(f, rows) ==
    /\ IF f = "create"
       THEN items' = rows /\ UNCHANGED edit
       ELSE edit' = [edit EXCEPT !.editItems = rows] /\ UNCHANGED items
    /\ UNCHANGED <<dbCartons, dbOrders, cartons, orders, op>>
    /\ UNCHANGED <<pureVars, budgetVars>>

\* the user can reach the editor of form f: no handler is in flight, and the
\* modal, when open, covers the create form
FormActive(f) ==
    /\ op.kind = "none"
    /\ IF f = "edit" THEN edit.open ELSE ~edit.open

EditorAddRow ==
    \E f \in Forms :
        /\ FormActive(f)
        /\ Len(FormRows(f)) < MaxRows
        /\ SetFormRows(f, addRow(FormRows(f)))

EditorRemoveRow ==
    \E f \in Forms :
        /\ FormActive(f)
        /\ \E k \in DOMAIN FormRows(f) : SetFormRows(f, removeRow(FormRows(f), k))

EditorModeChange ==
    \E f \in Forms :
        /\ FormActive(f)
        /\ \E k \in DOMAIN FormRows(f) :
           \E m \in {"carton", "loose", "auto"} \ {FormRows(f)[k].mode} :
              SetFormRows(f, handleModeChange(FormRows(f), k, m))

EditorCartonChange ==
    \E f \in Forms :
        /\ FormActive(f)
        /\ \E k \in DOMAIN FormRows(f) :
           \E cid \in CartonOptions(FormRows(f)[k], cartons) \ {FormRows(f)[k].carton_id} :
              SetFormRows(f, handleCartonChange(FormRows(f), k, cid, cartons))

\* the quantity field of a carton-mode row is read-only (part_001:733-739)
EditorQtyChange ==
    \E f \in Forms :
        /\ FormActive(f)
        /\ \E k \in DOMAIN FormRows(f) :
           /\ FormRows(f)[k].mode # "carton"
           /\ \E v \in 1..MaxQty :
                 SetFormRows(f, handleQtyChange(FormRows(f), k, v, cartons))

EditorUnitPriceChange ==
    \E f \in Forms :
        /\ FormActive(f)
        /\ \E k \in DOMAIN FormRows(f) :
           \E v \in EditorPrices \ {FormRows(f)[k].unit_price} :
              SetFormRows(f, handleUnitPriceChange(FormRows(f), k, v))

(***************************************************************************)
(* The rows a form holds when the user submits it.  In Spec the editing of *)
(* a form is folded into its submission: the submitted rows are rows the   *)
(* editor handlers above produce from the rows the form held.              *)
(***************************************************************************)
Modes == {"carton", "loose", "auto"}

\* a row added with addRow, then its mode, its carton and (v > 0) its
\* quantity set, in this order
BuiltRow(m, cid, v, snapshot) ==
    LET r0 == handleModeChange(addRow(<<>>), 1, m)
        r1 == handleCartonChange(r0, 1, cid, snapshot)
        r2 == IF v > 0 /\ m # "carton" THEN handleQtyChange(r1, 1, v, snapshot) ELSE r1
    IN  r2[1]

\* the rows the user adds: the untouched row of addRow, or a row with a
\* carton of its dropdown
NewRows(snapshot) ==
    {BlankRow} \cup
    UNION {{BuiltRow(m, cid, v, snapshot) :
               cid \in availableCartonsFor(m, snapshot), v \in 0..MaxQty} : m \in Modes}

RECURSIVE KeptRows(_, _, _, _)
\* the rows of base[i..] the user keeps (keep[i]), each with its quantity
\* typed anew when typed[i] > 0 and the field is not read-only
KeptRows(base, keep, typed, snapshot) ==
    IF base = <<>> THEN <<>>
    ELSE LET rest == KeptRows(Tail(base), Tail(keep), Tail(typed), snapshot)
             row == IF Head(typed) > 0 /\ Head(base).mode # "carton"
                    THEN handleQtyChange(<<Head(base)>>, 1, Head(typed), snapshot)[1]
                    ELSE Head(base)
         IN  IF Head(keep) THEN <<row>> \o rest ELSE rest

\* sequences of at most n rows of S
RowSeqs(S, n) == UNION {[1..k -> S] : k \in 0..n}

\* the contents the user can give a form that holds base: some rows removed,
\* quantities typed, rows added while the form holds fewer than MaxRows
EditedRows(base, snapshot) ==
    UNION {{KeptRows(base, keep, typed, snapshot) \o added :
               added \in RowSeqs(NewRows(snapshot),
                                 IF MaxRows > Cardinality({i \in DOMAIN base : keep[i]})
                                 THEN MaxRows - Cardinality({i \in DOMAIN base : keep[i]})
                                 ELSE 0)} :
           keep \in [DOMAIN base -> BOOLEAN],
           typed \in [DOMAIN base -> 0..MaxQty]}

\* the rows a submission carries.  The user edits a form once: a form as
\* the program set it (pristine) is edited and submitted; a form a failed
\* submission left behind is submitted again as it stands.  When the session
\* has used its MaxRuns handlers, only the handler a persistence error has
\* just ended is submitted again
FormChoices(base, pristine, snapshot, isRetry) ==
    IF runs < MaxRuns
    THEN (IF pristine THEN EditedRows(base, snapshot) ELSE {base})
    ELSE IF isRetry THEN {base} ELSE {}

(***************************************************************************)
(* Helpers of the order handlers.                                          *)
(***************************************************************************)
\* the limit of validateItems and of the handlers, part_001:989, 1081, 1259
MaxOrderItems == 25

ErrName == "Customer name is required."
ErrPhone == "Customer phone is required."
ErrAddress == "Delivery address is required."
ErrNoItems == "Please add at least one item."
ErrTooManyItems == "You cannot add more than 25 items in a single order."
ErrNoCarton == "Each item must have a carton selected."
ErrQuantity == "Loose/Auto items must have a valid quantity."
ErrUnitsBelowZero == "Not enough units remaining for Carton."
ErrPersistence == "The persistence call failed."

\* what the user typed into the customer fields of a form
CustomerInputs ==
    {[name |-> n, phone |-> "017", address |-> "Dhaka"] : n \in {"", "Rahim"}}

\* the customer fields of a submission: one is left empty only in a submission
\* of the rows the form held
CustomersFor(untouched) ==
    IF untouched THEN CustomerInputs ELSE {c \in CustomerInputs : c.name # ""}

\* what the user typed into the delivery fee field
DeliveryFees == {1}

\* the customer checks of part_001:1054-1067 and 1232-1245
validateCustomer(c) ==
    IF c.name = "" THEN ErrName
    ELSE IF c.phone = "" THEN ErrPhone
    ELSE IF c.address = "" THEN ErrAddress
    ELSE ""

validateItems_NoCartonCheck(rows, isEdit) ==
    IF Len(rows) = 0 THEN ErrNoItems
    ELSE IF Len(rows) > MaxOrderItems THEN ErrTooManyItems
    ELSE IF ~isEdit /\ \E k \in DOMAIN rows :
                          rows[k].mode \in {"loose", "auto"} /\ rows[k].quantity <= 0
         THEN ErrQuantity
    ELSE ""

\* validateItems, part_001:985-1009
validateItems(rows, isEdit) ==
    IF Len(rows) = 0 THEN ErrNoItems
    ELSE IF Len(rows) > MaxOrderItems THEN ErrTooManyItems
    ELSE IF \E k \in DOMAIN rows :
               \/ rows[k].carton_id = 0
               \/ (~isEdit /\ rows[k].mode \in {"loose", "auto"} /\ rows[k].quantity <= 0)
         THEN LET k == CHOOSE i \in DOMAIN rows :
                          /\ \/ rows[i].carton_id = 0
                             \/ (~isEdit /\ rows[i].mode \in {"loose", "auto"}
                                 /\ rows[i].quantity <= 0)
                          /\ \A j \in 1..(i - 1) :
                                ~(\/ rows[j].carton_id = 0
                                  \/ (~isEdit /\ rows[j].mode \in {"loose", "auto"}
                                      /\ rows[j].quantity <= 0))
              IN  IF rows[k].carton_id = 0 THEN ErrNoCarton ELSE ErrQuantity
    ELSE ""

RECURSIVE SumLineTotal(_, _)
SumLineTotal(rows, i) ==
    IF i > Len(rows) THEN 0 ELSE rows[i].line_total + SumLineTotal(rows, i + 1)

\* calcSubtotal, part_001:921-922
calcSubtotal(rows) == SumLineTotal(rows, 1)

\* the payload map of part_001:1091-1098 and 1269-1276
ItemsPayload(expandedItems) ==
    [i \in 1..Len(expandedItems) |->
        [mode |-> expandedItems[i].mode,
         carton_id |-> expandedItems[i].carton_id,
         product_id |-> expandedItems[i].product_id,
         quantity |-> expandedItems[i].quantity,
         unit_price |-> IF expandedItems[i].unit_price = NoPrice THEN 0
                        ELSE expandedItems[i].unit_price,
         line_total |-> expandedItems[i].line_total]]

RECURSIVE LooseSum(_, _, _)
\* the summed quantity of the loose items of its[i..] on carton id
LooseSum(its, id, i) ==
    IF i > Len(its) THEN 0
    ELSE (IF its[i].mode = "loose" /\ its[i].carton_id = id THEN its[i].quantity ELSE 0)
         + LooseSum(its, id, i + 1)

\* the keys the forEach loops of part_001:1126-1132, 1294-1308, 1395-1401 create
LooseKeys(its) ==
    {its[i].carton_id : i \in {j \in DOMAIN its :
                                 its[j].mode = "loose" /\ its[j].carton_id # 0}}

\* looseAdjustments of an edit with the loose quantities of the previous items
\* counted twice
LooseAdjustments_DoublePrev(prevItems, newItems) ==
    [id \in LooseKeys(prevItems) \cup LooseKeys(newItems) |->
        2 * LooseSum(prevItems, id, 1) - LooseSum(newItems, id, 1)]

\* looseAdjustments: + the previous loose quantities, - the new ones
\* (create: no previous items; delete: no new items)
LooseAdjustments(prevItems, newItems) ==
    [id \in LooseKeys(prevItems) \cup LooseKeys(newItems) |->
        LooseSum(prevItems, id, 1) - LooseSum(newItems, id, 1)]

RECURSIVE Ascending(_)
\* Object.keys of an object with integer keys: ascending
Ascending(S) ==
    IF S = {} THEN <<>>
    ELSE LET m == CHOOSE x \in S : \A y \in S : x <= y
         IN  <<m>> \o Ascending(S \ {m})

RECURSIVE CartonIdSeq(_, _, _)
\* the carton ids of the carton-mode items of its[i..], each once, in order of
\* first appearance (a Set, or [...new Set(ids)])
CartonIdSeq(its, i, seen) ==
    IF i > Len(its) THEN <<>>
    ELSE IF /\ its[i].mode = "carton" /\ its[i].carton_id # 0
            /\ its[i].carton_id \notin seen
         THEN <<its[i].carton_id>> \o CartonIdSeq(its, i + 1, seen \cup {its[i].carton_id})
         ELSE CartonIdSeq(its, i + 1, seen)

RECURSIVE SeqMinus(_, _, _)
\* the elements of s[i..] that are not in S (a.forEach: if (!b.has(id)) push)
SeqMinus(s, S, i) ==
    IF i > Len(s) THEN <<>>
    ELSE IF s[i] \in S THEN SeqMinus(s, S, i + 1)
         ELSE <<s[i]>> \o SeqMinus(s, S, i + 1)

\* cartonsToBook with the comparison left out: every carton of the new items
cartonsToBook_All(prevItems, newItems) == CartonIdSeq(newItems, 1, {})

\* cartonsToBook, part_001:1328-1348: in the new items and not in the previous
cartonsToBook(prevItems, newItems) ==
    SeqMinus(CartonIdSeq(newItems, 1, {}), Range(CartonIdSeq(prevItems, 1, {})), 1)

\* cartonsToUnbook, part_001:1328-1355: in the previous items and not in the new
cartonsToUnbook(prevItems, newItems) ==
    SeqMinus(CartonIdSeq(prevItems, 1, {}), Range(CartonIdSeq(newItems, 1, {})), 1)

\* the rows of table t after an update of field to value for the ids in S
\* (.update({...}).in("id", ids) or .eq("id", id))
WithStatus(table, S, value) ==
    [i \in DOMAIN table |->
        IF table[i].id \in S THEN [table[i] EXCEPT !.status = value] ELSE table[i]]

WithUnits(table, id, value) ==
    [i \in DOMAIN table |->
        IF table[i].id = id THEN [table[i] EXCEPT !.units_remaining = value]
        ELSE table[i]]

\* updatedCartons after the rows the call returned have replaced the rows of
\* the same id (part_001:950-953, 969-972, 1044)
Patched(updatedCartons, returned, S) ==
    [i \in DOMAIN updatedCartons |->
        IF updatedCartons[i].id \in S /\ HasCarton(returned, updatedCartons[i].id)
        THEN FindCarton(returned, updatedCartons[i].id)
        ELSE updatedCartons[i]]

\* the orders table holds a row with this id
LiveOrder(id) == id \in DOMAIN dbOrders /\ dbOrders[id].id = id

Fail_Continue(o, msg) == [o EXCEPT !.err = msg]

\* the handler ends with the message shown to the user
Fail(o, msg) == [o EXCEPT !.pc = "failed", !.err = msg]

Called(o, name) == [o EXCEPT !.calls = Append(o.calls, name)]

\* the outcomes of a persistence call: it succeeds, or (at most MaxFailures
\* times in a session) it returns an error
Outcomes == IF failures < MaxFailures THEN BOOLEAN ELSE {TRUE}

NoRetry == [kind |-> "none", id |-> 0, calls |-> <<>>]

\* the user starts again, as it stands, the handler a persistence error ended
IsRetry(kind, id) == retry.kind = kind /\ retry.id = id

(***************************************************************************)
(* The handler's position after a phase.  The booking ids, the adjustment  *)
(* map and updatedCartons are the locals of the phase that starts.         *)
(***************************************************************************)
\* createOrUpdateInvoice (create, edit); on delete the best-effort removal of
\* the invoice file, then the deletion (part_001:1416-1429)
AfterBooking(o) ==
    IF o.kind = "delete"
    THEN [o EXCEPT !.pc = IF o.order.invoice_url THEN "remove" ELSE "delete"]
    ELSE [o EXCEPT !.pc = "upload"]

\* part_001:1138-1145 (create), 1327-1362 (edit), 1407-1414 (delete) up to
\* the first call of applyCartonStatusChanges: updatedCartons = [...cartons]
EnterBooking(o) ==
    LET b == IF o.kind = "create" THEN CartonIdSeq(o.payload, 1, {})
             ELSE IF o.kind = "edit" THEN cartonsToBook(o.prev, o.payload)
             ELSE <<>>
        u == IF o.kind = "edit" THEN cartonsToUnbook(o.prev, o.payload)
             ELSE IF o.kind = "delete" THEN CartonIdSeq(o.prev, 1, {})
             ELSE <<>>
    IN  IF b = <<>> /\ u = <<>> THEN AfterBooking(o)
        ELSE [o EXCEPT !.bookIds = b, !.unbookIds = u, !.updated = o.snap,
                       !.pc = IF b # <<>> THEN "book" ELSE "unbook"]

EnterLoose_BookingFirst(o, adjustments) == EnterBooking(o)

\* part_001:1124-1136, 1323-1325, 1394-1405 up to the first iteration of
\* applyLooseAdjustments: updatedCartons = [...cartons]
EnterLoose(o, adjustments) ==
    IF DOMAIN adjustments = {} THEN EnterBooking(o)
    ELSE [o EXCEPT !.adj = adjustments, !.todo = Ascending(DOMAIN adjustments),
                   !.updated = o.snap, !.pc = "loose"]

(***************************************************************************)
(* handleCreateOrder, part_001:1050-1183.                                  *)
(***************************************************************************)
\* the user empties the create form a failed submission left behind: removeRow
\* on each of its rows, then addRow
ResetItems ==
    /\ op.kind = "none" /\ ~edit.open
    /\ items # <<BlankRow>>
    /\ items' = addRow(<<>>)
    /\ UNCHANGED <<dbCartons, dbOrders, cartons, orders, edit, op>>
    /\ UNCHANGED <<pureVars, failures, runs>>
    /\ retry' = NoRetry

\* the synchronous part up to the insert: validation, expansion, totals
CreateSubmit ==
    /\ op.kind = "none" /\ ~edit.open
    /\ Len(dbOrders) < MaxOrders
    /\ \E rows \in FormChoices(items, items = <<BlankRow>>, cartons, IsRetry("create", 0)) :
       \E customer \in CustomersFor(rows = items), deliveryFee \in DeliveryFees :
          LET o == [OpIdle EXCEPT !.kind = "create", !.snap = cartons, !.rows = rows,
                                  !.preCartons = dbCartons, !.preOrders = dbOrders]
              custErr == validateCustomer(customer)
              itemErr == validateItems(rows, FALSE)
              expanded == expandAutoItems(rows, cartons, ProductList)
          IN  /\ runs' = runs + (IF \/ custErr # "" \/ itemErr # "" \/ expanded.err # ""
                                   \/ Len(expanded.items) > MaxOrderItems
                                   \/ (IsRetry("create", 0) /\ rows = items)
                                THEN 0 ELSE 1)
              /\ items' = rows
              /\ op' = IF custErr # "" THEN Fail(o, custErr)
                       ELSE IF itemErr # "" THEN Fail(o, itemErr)
                       ELSE IF expanded.err # "" THEN Fail(o, expanded.err)
                       ELSE IF Len(expanded.items) > MaxOrderItems
                            THEN Fail(o, ErrTooManyItems)
                       ELSE [o EXCEPT !.pc = "insert",
                                      !.payload = ItemsPayload(expanded.items),
                                      !.fee = deliveryFee]
    /\ UNCHANGED <<dbCartons, dbOrders, cartons, orders, edit>>
    /\ retry' = NoRetry
    /\ UNCHANGED <<pureVars, failures>>

\* supabase.from("orders").insert, part_001:1112-1122
CreateInsert ==
    /\ op.kind = "create" /\ op.pc = "insert"
    /\ \E ok \in Outcomes :
          IF ok
          THEN LET row == [id |-> Len(dbOrders) + 1, items |-> op.payload,
                           subtotal |-> calcSubtotal(op.payload),
                           delivery_charge |-> op.fee,
                           total_amount |-> calcSubtotal(op.payload) + op.fee,
                           invoice_url |-> FALSE]
               IN  /\ dbOrders' = Append(dbOrders, row)
                   /\ op' = EnterLoose(Called([op EXCEPT !.order = row], "orders.insert"),
                                       LooseAdjustments(<<>>, op.payload))
          ELSE /\ dbOrders' = dbOrders
               /\ op' = Fail(Called(op, "orders.insert"), ErrPersistence)
    /\ UNCHANGED <<dbCartons, cartons, orders, items, edit>>
    /\ failures' = failures + (IF op'.err = ErrPersistence THEN 1 ELSE 0)
    /\ UNCHANGED <<pureVars, runs, retry>>

BelowZero_Never(newUnits) == FALSE

\* the guard of applyLooseAdjustments on the units it is about to write,
\* part_001:1028-1030
BelowZero(newUnits) == newUnits < 0

(***************************************************************************)
(* applyLooseAdjustments, part_001:1012-1048: one iteration of its loop.   *)
(* It reads the cartons of the closure of the handler that called it.      *)
(***************************************************************************)
LooseStep ==
    /\ op.pc = "loose"
    /\ LET id == Head(op.todo)
           rest == Tail(op.todo)
           known == HasCarton(op.updated, id)
           newUnits == IF known
                       THEN Units(FindCarton(op.updated, id)) + op.adj[id] ELSE 0
       IN  \E ok \in Outcomes :
              IF known /\ BelowZero(newUnits)
              THEN \* throw before the call (part_001:1028-1030)
                   /\ op' = Fail(op, ErrUnitsBelowZero)
                   /\ UNCHANGED <<dbCartons, cartons>>
              ELSE IF known /\ ~ok
              THEN /\ op' = Fail(Called(op, "cartons.update.units"), ErrPersistence)
                   /\ UNCHANGED <<dbCartons, cartons>>
              ELSE LET db == IF known THEN WithUnits(dbCartons, id, newUnits)
                             ELSE dbCartons
                       upd == IF known THEN Patched(op.updated, db, {id})
                              ELSE op.updated
                       o == [(IF known THEN Called(op, "cartons.update.units") ELSE op)
                                EXCEPT !.todo = rest, !.updated = upd]
                   IN  /\ dbCartons' = db
                       /\ IF rest = <<>>
                          THEN \* setCartons(updatedCartons)
                               /\ cartons' = upd
                               /\ op' = EnterBooking(o)
                          ELSE /\ cartons' = cartons
                               /\ op' = o
    /\ UNCHANGED <<dbOrders, orders, items, edit>>
    /\ failures' = failures + (IF op'.err = ErrPersistence THEN 1 ELSE 0)
    /\ UNCHANGED <<pureVars, runs, retry>>

(***************************************************************************)
(* applyCartonStatusChanges, part_001:926-976: its two calls.              *)
(***************************************************************************)
\* .update({ status: "booked" }).in("id", uniqueBookIds)
BookStep ==
    /\ op.pc = "book"
    /\ \E ok \in Outcomes :
          IF ok
          THEN LET db == WithStatus(dbCartons, Range(op.bookIds), "booked")
                   upd == Patched(op.updated, db, Range(op.bookIds))
                   o == [Called(op, "cartons.update.booked") EXCEPT !.updated = upd]
               IN  /\ dbCartons' = db
                   /\ IF op.unbookIds # <<>>
                      THEN /\ op' = [o EXCEPT !.pc = "unbook"]
                           /\ cartons' = cartons
                      ELSE /\ op' = AfterBooking(o)
                           /\ cartons' = upd
          ELSE /\ op' = Fail(Called(op, "cartons.update.booked"), ErrPersistence)
               /\ UNCHANGED <<dbCartons, cartons>>
    /\ UNCHANGED <<dbOrders, orders, items, edit>>
    /\ failures' = failures + (IF op'.err = ErrPersistence THEN 1 ELSE 0)
    /\ UNCHANGED <<pureVars, runs, retry>>

\* .update({ status: "received" }).in("id", uniqueUnbookIds), then setCartons
UnbookStep ==
    /\ op.pc = "unbook"
    /\ \E ok \in Outcomes :
          IF ok
          THEN LET db == WithStatus(dbCartons, Range(op.unbookIds), "received")
                   upd == Patched(op.updated, db, Range(op.unbookIds))
                   o == [Called(op, "cartons.update.received") EXCEPT !.updated = upd]
               IN  /\ dbCartons' = db
                   /\ cartons' = upd
                   /\ op' = AfterBooking(o)
          ELSE /\ op' = Fail(Called(op, "cartons.update.received"), ErrPersistence)
               /\ UNCHANGED <<dbCartons, cartons>>
    /\ UNCHANGED <<dbOrders, orders, items, edit>>
    /\ failures' = failures + (IF op'.err = ErrPersistence THEN 1 ELSE 0)
    /\ UNCHANGED <<pureVars, runs, retry>>

(***************************************************************************)
(* createOrUpdateInvoice, part_001:386-423, as called by create and edit.  *)
(***************************************************************************)
\* supabase.storage.from("invoices").upload
UploadStep ==
    /\ op.pc = "upload"
    /\ \E ok \in Outcomes :
          op' = IF ok THEN [Called(op, "storage.upload") EXCEPT !.pc = "invoiceUrl"]
                ELSE Fail(Called(op, "storage.upload"), ErrPersistence)
    /\ UNCHANGED <<dbCartons, dbOrders, cartons, orders, items, edit>>
    /\ failures' = failures + (IF op'.err = ErrPersistence THEN 1 ELSE 0)
    /\ UNCHANGED <<pureVars, runs, retry>>

\* orders.update({ invoice_url }).eq("id", orderRow.id).select().single(), and
\* what the handler does with finalOrder: part_001:1154-1176 (create),
\* 1371-1374 (edit)
InvoiceUrlStep ==
    /\ op.pc = "invoiceUrl"
    /\ \E ok \in Outcomes :
          IF ok /\ LiveOrder(op.order.id)
          THEN LET finalOrder == [dbOrders[op.order.id] EXCEPT !.invoice_url = TRUE]
               IN  /\ dbOrders' = [dbOrders EXCEPT ![op.order.id] = finalOrder]
                   /\ op' = [Called(op, "orders.update.invoice_url")
                               EXCEPT !.pc = "done", !.order = finalOrder]
                   /\ IF op.kind = "create"
                      THEN /\ orders' = <<finalOrder>> \o orders
                           /\ items' = <<BlankRow>>
                           /\ edit' = edit
                      ELSE /\ orders' = [i \in DOMAIN orders |->
                                           IF orders[i].id = finalOrder.id
                                           THEN finalOrder ELSE orders[i]]
                           /\ items' = items
                           /\ edit' = EditClosed
          ELSE /\ op' = Fail(Called(op, "orders.update.invoice_url"), ErrPersistence)
               /\ UNCHANGED <<dbOrders, orders, items, edit>>
    /\ UNCHANGED <<dbCartons, cartons>>
    /\ failures' = failures + (IF op'.err = ErrPersistence THEN 1 ELSE 0)
    /\ UNCHANGED <<pureVars, runs, retry>>

\* the handler returns (finally: setCreating(false) / setSavingEdit(false))
OpReturn ==
    /\ op.pc \in {"done", "failed"}
    /\ op' = OpIdle
    /\ UNCHANGED <<dbCartons, dbOrders, cartons, orders, items, edit>>
    /\ retry' = IF op.pc = "failed" /\ op.err = ErrPersistence
                THEN [kind |-> op.kind,
                      id |-> IF op.kind = "create" THEN 0 ELSE op.order.id,
                      calls |-> op.calls]
                ELSE NoRetry
    /\ UNCHANGED <<pureVars, failures, runs>>

(***************************************************************************)
(* The edit modal and handleUpdateOrder, part_001:1187-1381.               *)
(***************************************************************************)
\* openEditModal, part_001:1187-1215, on an order of the list
OpenEditModal ==
    /\ op.kind = "none" /\ ~edit.open
    /\ \E i \in DOMAIN orders :
          edit' = [open |-> TRUE, editingOrder |-> orders[i],
                   editItems |-> orders[i].items,
                   originalEditItems |-> orders[i].items]
    /\ UNCHANGED <<dbCartons, dbOrders, cartons, orders, items, op>>
    /\ UNCHANGED <<pureVars, failures, runs>>
    /\ retry' = NoRetry

\* closeEditModal, part_001:1217-1220.  editItems and originalEditItems stay
\* in the component but nothing reads them before openEditModal sets them anew
CloseEditModal ==
    /\ op.kind = "none" /\ edit.open
    /\ edit' = EditClosed
    /\ UNCHANGED <<dbCartons, dbOrders, cartons, orders, items, op>>
    /\ UNCHANGED <<pureVars, failures, runs>>
    \* the user who gives up a save that failed may go on to delete that order
    /\ retry' = IF retry.kind = "edit" THEN [retry EXCEPT !.kind = "abandoned"]
                ELSE NoRetry

\* the synchronous part up to the update of the order
EditSubmit ==
    /\ op.kind = "none" /\ edit.open
    /\ \E rows \in FormChoices(edit.editItems, edit.editItems = edit.originalEditItems,
                                cartons, IsRetry("edit", edit.editingOrder.id)) :
       \E customer \in CustomersFor(rows = edit.editItems), deliveryFee \in DeliveryFees :
          LET o == [OpIdle EXCEPT !.kind = "edit", !.snap = cartons,
                                  !.rows = rows,
                                  !.prev = edit.originalEditItems,
                                  !.order = edit.editingOrder,
                                  !.preCartons = dbCartons, !.preOrders = dbOrders]
              custErr == validateCustomer(customer)
              itemErr == validateItems(rows, TRUE)
              expanded == expandAutoItems(rows, cartons, ProductList)
          IN  /\ runs' = runs + (IF \/ custErr # "" \/ itemErr # "" \/ expanded.err # ""
                                   \/ Len(expanded.items) > MaxOrderItems
                                   \/ (/\ IsRetry("edit", edit.editingOrder.id)
                                       /\ rows = edit.editItems)
                                THEN 0 ELSE 1)
              /\ edit' = [edit EXCEPT !.editItems = rows]
              /\ op' = IF custErr # "" THEN Fail(o, custErr)
                       ELSE IF itemErr # "" THEN Fail(o, itemErr)
                       ELSE IF expanded.err # "" THEN Fail(o, expanded.err)
                       ELSE IF Len(expanded.items) > MaxOrderItems
                            THEN Fail(o, ErrTooManyItems)
                       ELSE [o EXCEPT !.pc = "update",
                                      !.payload = ItemsPayload(expanded.items),
                                      !.fee = deliveryFee]
    /\ UNCHANGED <<dbCartons, dbOrders, cartons, orders, items>>
    /\ retry' = NoRetry
    /\ UNCHANGED <<pureVars, failures>>

\* supabase.from("orders").update(payload).eq("id", editingOrder.id),
\* part_001:1310-1321, with the looseAdjustments built at 1291-1308
EditUpdate ==
    /\ op.kind = "edit" /\ op.pc = "update"
    /\ \E ok \in Outcomes :
          IF ok /\ LiveOrder(op.order.id)
          THEN LET row == [dbOrders[op.order.id] EXCEPT
                              !.items = op.payload,
                              !.subtotal = calcSubtotal(op.payload),
                              !.delivery_charge = op.fee,
                              !.total_amount = calcSubtotal(op.payload) + op.fee]
               IN  /\ dbOrders' = [dbOrders EXCEPT ![op.order.id] = row]
                   /\ op' = EnterLoose(Called([op EXCEPT !.order = row], "orders.update"),
                                       LooseAdjustments(op.prev, op.payload))
          ELSE /\ dbOrders' = dbOrders
               /\ op' = Fail(Called(op, "orders.update"), ErrPersistence)
    /\ UNCHANGED <<dbCartons, cartons, orders, items, edit>>
    /\ failures' = failures + (IF op'.err = ErrPersistence THEN 1 ELSE 0)
    /\ UNCHANGED <<pureVars, runs, retry>>

(***************************************************************************)
(* handleDeleteOrder, part_001:1385-1442, on an order of the list, the     *)
(* confirmation given.                                                     *)
(***************************************************************************)
DeleteStart ==
    /\ op.kind = "none" /\ ~edit.open
    /\ \E i \in DOMAIN orders :
          /\ \/ runs < MaxRuns
             \/ IsRetry("delete", orders[i].id)
             \/ IsRetry("abandoned", orders[i].id)
          /\ runs' = runs + (IF \/ IsRetry("delete", orders[i].id)
                                 \/ IsRetry("abandoned", orders[i].id)
                              THEN 0 ELSE 1)
          \* the calls of the attempt this delete repeats stay on record
          /\ retry' = IF IsRetry("delete", orders[i].id) THEN retry ELSE NoRetry
          /\ op' = EnterLoose([OpIdle EXCEPT !.kind = "delete", !.snap = cartons,
                                          !.prev = orders[i].items,
                                          !.order = orders[i],
                                          !.preCartons = dbCartons,
                                          !.preOrders = dbOrders],
                           LooseAdjustments(orders[i].items, <<>>))
    /\ UNCHANGED <<dbCartons, dbOrders, cartons, orders, items, edit>>
    /\ UNCHANGED <<pureVars, failures>>

\* supabase.storage.from("invoices").remove inside its own try: whether it
\* succeeds or fails, the handler goes on to the deletion (part_001:1416-1424)
RemoveInvoiceStep ==
    /\ op.pc = "remove"
    /\ \E ok \in Outcomes :
          /\ op' = [Called(op, IF ok THEN "storage.remove" ELSE "storage.remove.failed")
                       EXCEPT !.pc = "delete"]
          /\ failures' = failures + (IF ok THEN 0 ELSE 1)
    /\ UNCHANGED <<dbCartons, dbOrders, cartons, orders, items, edit>>
    /\ UNCHANGED <<pureVars, runs, retry>>

\* the row of a deleted order: its id is not given to another order
Tombstone == NoOrder

\* supabase.from("orders").delete().eq("id", order.id), then setOrders
DeleteOrderStep ==
    /\ op.pc = "delete"
    /\ \E ok \in Outcomes :
          IF ok
          THEN /\ dbOrders' = [i \in DOMAIN dbOrders |->
                                 IF dbOrders[i].id = op.order.id THEN Tombstone
                                 ELSE dbOrders[i]]
               /\ orders' = SelectSeq(orders, LAMBDA x : x.id # op.order.id)
               /\ op' = [Called(op, "orders.delete") EXCEPT !.pc = "done"]
          ELSE /\ op' = Fail(Called(op, "orders.delete"), ErrPersistence)
               /\ UNCHANGED <<dbOrders, orders>>
    /\ UNCHANGED <<dbCartons, cartons, items, edit>>
    /\ failures' = failures + (IF op'.err = ErrPersistence THEN 1 ELSE 0)
    /\ UNCHANGED <<pureVars, runs, retry>>

(***************************************************************************)
(* Spec: one session.                                                      *)
(***************************************************************************)
Init ==
    /\ SessionInit
    /\ sel = [cands |-> <<>>, desired |-> 0, result |-> NullSelection, done |-> FALSE]
    /\ exp = [stage |-> "idle", rows |-> <<>>, cartons |-> <<>>,
              out |-> [err |-> "", items |-> <<>>],
              again |-> [err |-> "", items |-> <<>>]]

Next ==
    \/ ResetItems
    \/ CreateSubmit
    \/ CreateInsert
    \/ OpenEditModal
    \/ CloseEditModal
    \/ EditSubmit
    \/ EditUpdate
    \/ DeleteStart
    \/ LooseStep
    \/ BookStep
    \/ UnbookStep
    \/ UploadStep
    \/ InvoiceUrlStep
    \/ RemoveInvoiceStep
    \/ DeleteOrderStep
    \/ OpReturn

Spec == Init /\ [][Next]_vars

(***************************************************************************)
(* SpecEditor: the handlers of the editor, one at a time, on the create    *)
(* form of a session that has just begun.                                  *)
(***************************************************************************)
(***************************************************************************)
(* SpecEditor: the editor handlers step by step, then one run of the       *)
(* handler the form is submitted to, every persistence call succeeding.    *)
(* The session starts either empty with the create form, or loaded by      *)
(* fetchAll (part_001:866-891) with one stored order and the edit modal    *)
(* opened on it (openEditModal, part_001:1187-1215).                       *)
(***************************************************************************)
\* the cartons table of the loaded session: order 1 holds carton 2 and one
\* loose unit of carton 1
LoadedCartons == WithUnits(WithStatus(InitCartons, {2}, "booked"), 1, 1)

LoadedOrder ==
    LET its == << handleCartonChange(<<BlankRow>>, 1, 2, InitCartons)[1],
                  handleCartonChange(handleModeChange(<<BlankRow>>, 1, "loose"),
                                     1, 1, InitCartons)[1] >>
    IN  [id |-> 1, items |-> its, subtotal |-> calcSubtotal(its),
         delivery_charge |-> 1, total_amount |-> calcSubtotal(its) + 1,
         invoice_url |-> TRUE]

EditorInit ==
    /\ sel = [cands |-> <<>>, desired |-> 0, result |-> NullSelection, done |-> FALSE]
    /\ exp = [stage |-> "idle", rows |-> <<>>, cartons |-> <<>>,
              out |-> [err |-> "", items |-> <<>>],
              again |-> [err |-> "", items |-> <<>>]]
    /\ items = <<BlankRow>>
    /\ op = OpIdle
    /\ failures = MaxFailures
    /\ runs = MaxRuns - 1
    /\ retry = NoRetry
    /\ \/ /\ dbCartons = InitCartons /\ cartons = InitCartons
          /\ dbOrders = <<>> /\ orders = <<>>
          /\ edit = EditClosed
       \/ /\ dbCartons = LoadedCartons /\ cartons = LoadedCartons
          /\ dbOrders = <<LoadedOrder>> /\ orders = <<LoadedOrder>>
          /\ edit = [open |-> TRUE, editingOrder |-> LoadedOrder,
                     editItems |-> LoadedOrder.items,
                     originalEditItems |-> LoadedOrder.items]

NextEditor ==
    \/ EditorAddRow
    \/ EditorRemoveRow
    \/ EditorModeChange
    \/ EditorCartonChange
    \/ EditorQtyChange
    \/ EditorUnitPriceChange
    \/ CreateSubmit
    \/ CreateInsert
    \/ EditSubmit
    \/ EditUpdate
    \/ LooseStep
    \/ BookStep
    \/ UnbookStep
    \/ UploadStep
    \/ InvoiceUrlStep
    \/ OpReturn

SpecEditor == EditorInit /\ [][NextEditor]_vars

(***************************************************************************)
(* SpecSelect: selectCartonsForAuto on every candidate list of at most     *)
(* MaxCands cartons (ids 1..n in any order, units from UnitValues) and     *)
(* every desired quantity 1..MaxDesired.                                   *)
(***************************************************************************)
CandidateCarton(i, u) ==
    [id |-> i, product_id |-> 1, units_remaining |-> u,
     status |-> "received", is_open |-> FALSE]

CandLists ==
    {<<>>} \cup
    UNION {{s \in [1..n -> {CandidateCarton(i, u) : i \in 1..n, u \in UnitValues}] :
               \A i, j \in 1..n : i # j => s[i].id # s[j].id} : n \in 1..MaxCands}

SelIdle == [cands |-> <<>>, desired |-> 0, result |-> NullSelection, done |-> FALSE]
NoExpansion == [err |-> "", items |-> <<>>]
ExpIdle == [stage |-> "idle", rows |-> <<>>, cartons |-> <<>>,
            out |-> NoExpansion, again |-> NoExpansion]

InitSelect ==
    /\ sel \in {[cands |-> cs, desired |-> d, result |-> NullSelection, done |-> FALSE] :
                  cs \in CandLists, d \in 1..MaxDesired}
    /\ exp = ExpIdle
    /\ SessionInit

RunSelect ==
    /\ ~sel.done
    /\ sel' = [sel EXCEPT !.result = selectCartonsForAuto(sel.cands, sel.desired),
                          !.done = TRUE]
    /\ UNCHANGED exp
    /\ UNCHANGED sessionVars

NextSelect == RunSelect

SpecSelect == InitSelect /\ [][NextSelect]_vars

(***************************************************************************)
(* Vocabulary of the properties of the selection.                          *)
(***************************************************************************)
RECURSIVE SetUnits(_)
\* summed units_remaining of a set of cartons
SetUnits(S) ==
    IF S = {} THEN 0
    ELSE LET c == CHOOSE x \in S : TRUE IN c.units_remaining + SetUnits(S \ {c})

Ids(s) == [i \in DOMAIN s |-> s[i].id]

\* the candidates in ascending id order (their ids are 1..n)
ByIdOrder(s) == [i \in 1..Len(s) |-> CHOOSE c \in Range(s) : c.id = i]

Reverse(s) == [i \in 1..Len(s) |-> s[Len(s) + 1 - i]]

SelInsufficient == SetUnits(Range(sel.cands)) < sel.desired

\* C1: with total available units >= desired, the selection's summed
\* units_remaining is >= desired, and without its last carton it is < desired.
C1_CoversAndLastNeeded ==
    (sel.done /\ sel.desired > 0 /\ ~SelInsufficient) =>
        LET picked == sel.result.selectedCartons IN
        /\ sel.result.ok
        /\ Len(picked) >= 1
        /\ Range(picked) \subseteq Range(sel.cands)
        /\ \A i, j \in DOMAIN picked : i # j => picked[i].id # picked[j].id
        /\ SetUnits(Range(picked)) >= sel.desired
        /\ sel.result.totalUnits = SetUnits(Range(picked))
        /\ SetUnits(Range(SubSeq(picked, 1, Len(picked) - 1))) < sel.desired

C1_Witness ==
    /\ sel.done /\ ~SelInsufficient
    /\ Len(sel.result.selectedCartons) = 3
    /\ sel.result.totalUnits > sel.desired

\* C2: a successful selection uses the fewest cartons that cover the request:
\* no set of fewer candidates has summed units_remaining >= desired.
C2_FewestCartons ==
    (sel.done /\ sel.result.ok) =>
        \A S \in SUBSET Range(sel.cands) :
            Cardinality(S) < Len(sel.result.selectedCartons) =>
                SetUnits(S) < sel.desired

\* units [1,2,2,2] and desired 6 (the shape of [50,72,72,72] and 216)
C2_Witness ==
    /\ sel.done
    /\ Len(sel.cands) = 4
    /\ \A i \in 1..4 : sel.cands[i] = CandidateCarton(i, IF i = 1 THEN 1 ELSE 2)
    /\ sel.desired = 6
    /\ sel.result.ok
    /\ Ids(sel.result.selectedCartons) = <<2, 3, 4>>

\* C4: the selected sequence is ordered by units_remaining descending, ties by
\* ascending id; of equal-sized cartons a higher id is selected only with every
\* lower id of that size; every arrangement of the same candidates (compared
\* through the ascending-id arrangement and the reversed one) selects the same
\* sequence.
C4_OrderIndependent ==
    (sel.done /\ sel.result.ok) =>
        LET picked == sel.result.selectedCartons IN
        /\ \A i, j \in DOMAIN picked :
              i < j => \/ picked[i].units_remaining > picked[j].units_remaining
                       \/ /\ picked[i].units_remaining = picked[j].units_remaining
                          /\ picked[i].id < picked[j].id
        /\ \A c \in Range(picked) : \A d \in Range(sel.cands) :
              (d.units_remaining = c.units_remaining /\ d.id < c.id)
                  => d \in Range(picked)
        /\ selectCartonsForAuto(ByIdOrder(sel.cands), sel.desired) = sel.result
        /\ selectCartonsForAuto(Reverse(sel.cands), sel.desired) = sel.result

\* equal-sized cartons given in descending id order, not all of them needed
C4_Witness ==
    /\ sel.done /\ sel.result.ok
    /\ Len(sel.cands) = 3
    /\ Ids(sel.cands) = <<3, 2, 1>>
    /\ \A i \in 1..3 : sel.cands[i].units_remaining = 2
    /\ Ids(sel.result.selectedCartons) = <<1, 2>>

\* C5 as stated: an empty candidate list with desired > 0 fails with a
\* condition that differs from the one of insufficient stock.
C5_NoCandidatesDistinct ==
    (sel.done /\ sel.cands = <<>> /\ sel.desired > 0) =>
        /\ ~sel.result.ok
        /\ \A cs \in CandLists :
              (cs # <<>> /\ SetUnits(Range(cs)) < sel.desired)
                  => selectCartonsForAuto(cs, sel.desired) # sel.result

\* C5 as amended: an empty candidate list with desired > 0 fails, with the
\* same null result as insufficient stock.
C5_EmptyFailsAsNull ==
    (sel.done /\ sel.cands = <<>> /\ sel.desired > 0) =>
        /\ ~sel.result.ok
        /\ sel.result = NullSelection
        /\ sel.result = selectCartonsForAuto(<<CandidateCarton(1, 0)>>, sel.desired)

C5_Witness == sel.done /\ sel.cands = <<>> /\ sel.desired > 0 /\ ~sel.result.ok

(***************************************************************************)
(* SpecExpand: expandAutoItems on bounded row lists and carton snapshots,  *)
(* applied once to the rows and once more to its own result.               *)
(***************************************************************************)
\* the snapshots: cartons 1 and 2 hold product 1, carton 3 holds product 2
ExpandSnapshots ==
    {<< [id |-> 1, product_id |-> 1, units_remaining |-> u1, status |-> s1,
         is_open |-> TRUE],
        [id |-> 2, product_id |-> 1, units_remaining |-> u2, status |-> "received",
         is_open |-> FALSE],
        [id |-> 3, product_id |-> 2, units_remaining |-> 2, status |-> "received",
         is_open |-> FALSE] >> :
       u1 \in {0, 1, 2}, s1 \in {"received", "booked"}, u2 \in {1, 2}}

\* the product the editor stores with a row on carton cid (0: none, or unknown)
SeedProduct(cid) == IF cid \in {1, 2} THEN 1 ELSE IF cid = 3 THEN 2 ELSE 0

\* auto rows on no carton, on cartons 1 and 3 and on the unknown carton 4, with
\* and without a price of their own, and two rows that pass through
ExpandRowInputs ==
    {[mode |-> "auto", carton_id |-> cid, product_id |-> SeedProduct(cid),
      quantity |-> q, unit_price |-> pr,
      line_total |-> IF pr = NoPrice THEN 0 ELSE q * pr] :
        cid \in {0, 1, 3, 4}, q \in {0, 1, 3}, pr \in {NoPrice, 5}}
    \cup
    {[mode |-> "carton", carton_id |-> 2, product_id |-> 1, quantity |-> 2,
      unit_price |-> 2, line_total |-> 4],
     [mode |-> "loose", carton_id |-> 1, product_id |-> 1, quantity |-> 1,
      unit_price |-> 2, line_total |-> 2]}

ExpandRowLists ==
    UNION {[1..n -> ExpandRowInputs] : n \in 1..MaxExpandRows}

InitExpand ==
    /\ SessionInit
    /\ sel = SelIdle
    /\ exp \in {[stage |-> "input", rows |-> rs, cartons |-> cs,
                 out |-> NoExpansion, again |-> NoExpansion] :
                   rs \in ExpandRowLists, cs \in ExpandSnapshots}

\* expandAutoItems(rows, cartons, products)
RunExpand ==
    /\ exp.stage = "input"
    /\ exp' = [exp EXCEPT !.stage = "once",
                          !.out = expandAutoItems(exp.rows, exp.cartons, ProductList)]
    /\ UNCHANGED sel
    /\ UNCHANGED sessionVars

\* expandAutoItems on the items the first call returned, same snapshot
RunExpandAgain ==
    /\ exp.stage = "once"
    /\ exp.out.err = ""
    /\ exp' = [exp EXCEPT !.stage = "twice",
                          !.again = expandAutoItems(exp.out.items, exp.cartons,
                                                    ProductList)]
    /\ UNCHANGED sel
    /\ UNCHANGED sessionVars

NextExpand == RunExpand \/ RunExpandAgain

SpecExpand == InitExpand /\ [][NextExpand]_vars

(***************************************************************************)
(* Vocabulary of the properties of the expansion.                          *)
(***************************************************************************)
RECURSIVE Concat(_, _)
\* the concatenation of the sequences ss[i..Len(ss)]
Concat(ss, i) == IF i > Len(ss) THEN <<>> ELSE ss[i] \o Concat(ss, i + 1)

RECURSIVE SumQuantity(_, _)
SumQuantity(its, i) ==
    IF i > Len(its) THEN 0 ELSE its[i].quantity + SumQuantity(its, i + 1)

\* the price the claim gives the items of an auto row
ClaimedPrice(r, productId) ==
    IF r.unit_price # NoPrice THEN r.unit_price
    ELSE LET ps == {ProductList[i].unit_selling_price :
                      i \in {j \in DOMAIN ProductList : ProductList[j].id = productId}}
         IN  IF ps = {} THEN 0 ELSE CHOOSE x \in ps : TRUE

\* what the rows turn into, row by row, when the expansion succeeds
Segments(rows, snapshot) ==
    [k \in 1..Len(rows) |-> ExpandRow(rows[k], snapshot, ProductList).items]

\* C7 for the items seg of one auto row r on a snapshot
AutoSegmentOk(r, seg, snapshot) ==
    LET seed == FindCarton(snapshot, r.carton_id)
        price == ClaimedPrice(r, seed.product_id)
    IN  /\ Len(seg) >= 1
        /\ \A i, j \in DOMAIN seg : i # j => seg[i].carton_id # seg[j].carton_id
        /\ \A i \in DOMAIN seg :
              /\ seg[i].mode = "carton"
              /\ HasCarton(snapshot, seg[i].carton_id)
              /\ LET c == FindCarton(snapshot, seg[i].carton_id) IN
                 /\ c.status = "received"
                 /\ c.product_id = seed.product_id
                 /\ c.units_remaining > 0
                 /\ seg[i].quantity = c.units_remaining
              /\ seg[i].product_id = seed.product_id
              /\ seg[i].unit_price = price
              /\ seg[i].line_total = seg[i].quantity * price
        /\ SumQuantity(seg, 1) >= r.quantity
        /\ Ids(selectCartonsForAuto(FilterForProduct(snapshot, seed.product_id, 1),
                                    r.quantity).selectedCartons)
             = [i \in DOMAIN seg |-> seg[i].carton_id]

\* C7: a successful expansion is the concatenation, row by row, of the row
\* itself (not auto) or of one carton-mode item per selected carton: a received
\* carton of the seed's product with units_remaining > 0, taken in full, at the
\* row's own price or else the product's default, line_total = quantity * price;
\* the summed quantity is >= the requested one.
C7_AutoRowExpansion ==
    (exp.stage \in {"once", "twice"} /\ exp.out.err = "") =>
        LET segs == Segments(exp.rows, exp.cartons) IN
        /\ exp.out.items = Concat(segs, 1)
        /\ \A k \in DOMAIN exp.rows :
              IF exp.rows[k].mode = "auto"
              THEN AutoSegmentOk(exp.rows[k], segs[k], exp.cartons)
              ELSE segs[k] = <<exp.rows[k]>>

\* an auto row without a price of its own that takes two cartons and more than
\* was asked for
C7_Witness ==
    /\ exp.stage = "once" /\ exp.out.err = ""
    /\ Len(exp.rows) = 1
    /\ exp.rows[1].mode = "auto" /\ exp.rows[1].unit_price = NoPrice
    /\ Len(exp.out.items) = 2
    /\ SumQuantity(exp.out.items, 1) > exp.rows[1].quantity
    /\ exp.out.items[1].unit_price = 2

\* C8: expanding the items an expansion returned, against the same snapshot,
\* returns them unchanged.
C8_ExpandIdempotent ==
    (exp.stage = "twice") => (exp.again.err = "" /\ exp.again.items = exp.out.items)

C8_Witness ==
    /\ exp.stage = "twice"
    /\ \E k \in DOMAIN exp.rows : exp.rows[k].mode = "auto"
    /\ Len(exp.out.items) > Len(exp.rows)

(***************************************************************************)
(* Claims about the handlers, checked under Spec.  op.preCartons and       *)
(* op.preOrders are the tables as the handler in flight found them.        *)
(***************************************************************************)
RECURSIVE ReceivedUnits(_, _, _)
\* the units of the received cartons of a product in snapshot[i..]
ReceivedUnits(snapshot, productId, i) ==
    IF i > Len(snapshot) THEN 0
    ELSE (IF snapshot[i].product_id = productId /\ snapshot[i].status = "received"
          THEN snapshot[i].units_remaining ELSE 0)
         + ReceivedUnits(snapshot, productId, i + 1)

\* an auto row asks for more units than the received cartons of its product hold
AsksTooMuch(rows, snapshot) ==
    \E k \in DOMAIN rows :
        /\ rows[k].mode = "auto" /\ rows[k].quantity > 0
        /\ \E i \in DOMAIN snapshot :
              /\ snapshot[i].id = rows[k].carton_id
              /\ ReceivedUnits(snapshot, snapshot[i].product_id, 1) < rows[k].quantity

CustomerErrors == {ErrName, ErrPhone, ErrAddress}

\* C3: a create or an edit whose rows hold an auto row that asks for more
\* units than its candidates hold fails with an error that is not a
\* persistence error (the not-enough-cartons error when the row is the only
\* one and the customer fields are filled), has issued no persistence call,
\* and leaves the cartons table, the orders table and the snapshot as it
\* found them.
C3_InsufficientStockFails ==
    (op.kind \in {"create", "edit"} /\ AsksTooMuch(op.rows, op.snap)) =>
        /\ op.pc = "failed"
        /\ op.err \notin {"", ErrPersistence}
        /\ (Len(op.rows) = 1 /\ op.err \notin CustomerErrors) => op.err = ErrNotEnoughUnits
        /\ op.calls = <<>>
        /\ dbCartons = op.preCartons
        /\ dbOrders = op.preOrders
        /\ cartons = op.snap

\* a create that asks for two units of a product whose other carton an
\* earlier order has booked
C3_Witness ==
    /\ op.kind = "create" /\ op.pc = "failed" /\ op.err = ErrNotEnoughUnits
    /\ AsksTooMuch(op.rows, op.snap)
    /\ \E i \in DOMAIN dbCartons : dbCartons[i].status = "booked"

StoredModes == {"carton", "loose"}

\* C6: every line item of every stored order has mode carton or loose, and
\* so has every item of the payload of an insert or update about to be
\* issued.
C6_NoAutoStored ==
    /\ \A i \in DOMAIN dbOrders : \A k \in DOMAIN dbOrders[i].items :
          dbOrders[i].items[k].mode \in StoredModes
    /\ (op.pc \in {"insert", "update"}) =>
          \A k \in DOMAIN op.payload : op.payload[k].mode \in StoredModes

\* an edit whose rows held an auto row has stored its items
C6_Witness ==
    /\ op.kind = "edit" /\ op.pc = "done"
    /\ \E k \in DOMAIN op.rows : op.rows[k].mode = "auto"
    /\ dbOrders[op.order.id].items = op.payload
    /\ op.payload # <<>>

\* the carton ids of the carton-mode items of a list
CartonModeIds(its) ==
    {its[k].carton_id : k \in {j \in DOMAIN its : its[j].mode = "carton"}}

\* C9: once an edit has compared the previous items with the new ones, the
\* ids it books are the carton-mode ids of the new items that are not among
\* those of the previous items, the ids it unbooks are the carton-mode ids of
\* the previous items that are not among those of the new items, and no id
\* is in both.
C9_BookUnbookDifferences ==
    (op.kind = "edit" /\ op.pc \in {"book", "unbook", "upload", "invoiceUrl", "done"}) =>
        /\ Range(op.bookIds) = CartonModeIds(op.payload) \ CartonModeIds(op.prev)
        /\ Range(op.unbookIds) = CartonModeIds(op.prev) \ CartonModeIds(op.payload)
        /\ Range(op.bookIds) \cap Range(op.unbookIds) = {}

\* an edit that replaces the carton of the order by another one
C9_Witness ==
    /\ op.kind = "edit" /\ op.pc = "book"
    /\ op.bookIds # <<>> /\ op.unbookIds # <<>>
    /\ CartonModeIds(op.prev) \cap CartonModeIds(op.payload) = {}

RECURSIVE LooseTotal(_, _, _)
\* the summed quantity of the loose items of its[i..] on carton id
LooseTotal(its, id, i) ==
    IF i > Len(its) THEN 0
    ELSE (IF its[i].mode = "loose" /\ its[i].carton_id = id THEN its[i].quantity ELSE 0)
         + LooseTotal(its, id, i + 1)

\* C10: when an edit has succeeded, the stored units_remaining of each carton
\* are its stored units before the edit, plus the loose quantities the stored
\* order held on it before the edit, minus the loose quantities the order
\* holds on it now.
C10_EditAppliesDelta ==
    (op.kind = "edit" /\ op.pc = "done") =>
        \A i \in DOMAIN dbCartons :
            dbCartons[i].units_remaining =
                op.preCartons[i].units_remaining
                + LooseTotal(op.preOrders[op.order.id].items, dbCartons[i].id, 1)
                - LooseTotal(dbOrders[op.order.id].items, dbCartons[i].id, 1)

\* the row of carton id in a table or snapshot that holds it
RowOf(table, id) == table[CHOOSE i \in DOMAIN table : table[i].id = id]

\* C11: the stored units_remaining of every carton are at least 0.
C11_UnitsNeverNegative ==
    \A i \in DOMAIN dbCartons : dbCartons[i].units_remaining >= 0

\* a loose order has taken the last units of a carton
C11_Witness ==
    /\ op.pc = "done" /\ op.kind = "create"
    /\ \E i \in DOMAIN dbCartons :
          /\ dbCartons[i].units_remaining = 0
          /\ op.preCartons[i].units_remaining > 0
          /\ LooseTotal(op.payload, dbCartons[i].id, 1) > 0

\* the carton ids whose loose adjustment the handler in flight has applied
AdjustedIds == IF op.adj = <<>> THEN {} ELSE DOMAIN op.adj \ Range(op.todo)

\* C12: a loose deduction larger than the stored units_remaining of its carton
\* is never applied: the handler fails with the not-enough-units error and
\* the stored units_remaining of that carton stay as they were.
C12_LargerDeductionFails ==
    /\ \A id \in AdjustedIds :
          RowOf(op.preCartons, id).units_remaining + op.adj[id] >= 0
    /\ (op.pc = "failed" /\ op.err = ErrUnitsBelowZero) =>
          RowOf(dbCartons, Head(op.todo)).units_remaining
              = RowOf(op.preCartons, Head(op.todo)).units_remaining

\* C13: a create or edit that ends with the not-enough-units error has
\* written nothing: the orders table and the cartons table are as it found
\* them and it has issued no persistence call.
C13_BelowZeroFailsBeforeWrite ==
    (op.kind \in {"create", "edit"} /\ op.pc = "failed" /\ op.err = ErrUnitsBelowZero) =>
        /\ op.calls = <<>>
        /\ dbOrders = op.preOrders
        /\ dbCartons = op.preCartons

\* the session so far is one successful create and the delete of its order
CreatedThenDeleted ==
    /\ op.kind = "delete" /\ op.pc = "done" /\ op.order.invoice_url
    /\ runs = 2 /\ failures = 0 /\ Len(dbOrders) = 1

\* C14: when an order has been created and then at once deleted, every
\* carton has the stored status and units_remaining it had before the create.
C14_DeleteReversesCreate ==
    CreatedThenDeleted =>
        \A i \in DOMAIN dbCartons :
            /\ dbCartons[i].status = InitCartons[i].status
            /\ dbCartons[i].units_remaining = InitCartons[i].units_remaining

\* C15: when a create or an edit has succeeded, every carton of a carton-mode
\* item of the order as stored has the stored status booked.
C15_CartonItemsBooked ==
    (op.kind \in {"create", "edit"} /\ op.pc = "done") =>
        \A id \in CartonModeIds(dbOrders[op.order.id].items) :
            RowOf(dbCartons, id).status = "booked"

\* C16: when a delete has succeeded, every carton the stored order held in
\* carton mode has the stored status received; when an edit has succeeded,
\* so has every carton the stored order held in carton mode before the edit
\* and holds no more.
C16_ReleasedCartonsReceived ==
    /\ (op.kind = "delete" /\ op.pc = "done") =>
          \A id \in CartonModeIds(op.preOrders[op.order.id].items) :
              RowOf(dbCartons, id).status = "received"
    /\ (op.kind = "edit" /\ op.pc = "done") =>
          \A id \in CartonModeIds(op.preOrders[op.order.id].items)
                       \ CartonModeIds(dbOrders[op.order.id].items) :
              RowOf(dbCartons, id).status = "received"

\* C17: no carton id is in carton-mode items of two stored orders.
C17_NoDoubleBooking ==
    \A i, j \in DOMAIN dbOrders :
        i # j => CartonModeIds(dbOrders[i].items) \cap CartonModeIds(dbOrders[j].items) = {}

\* the errors of the checks made before the first persistence call
ValidationErrors ==
    {ErrName, ErrPhone, ErrAddress, ErrNoItems, ErrTooManyItems, ErrNoCarton, ErrQuantity}

\* the form the handler in flight was given is one the validation is to refuse
InvalidRows(rows) ==
    \/ rows = <<>>
    \/ \E k \in DOMAIN rows :
          \/ rows[k].carton_id = 0
          \/ (rows[k].mode \in {"loose", "auto"} /\ rows[k].quantity <= 0)

\* the handler in flight has issued no persistence call and left both tables
\* as it found them
NothingWritten ==
    op.calls = <<>> /\ dbOrders = op.preOrders /\ dbCartons = op.preCartons

\* C18: a create or edit that ends with a validation error has issued no
\* persistence call, and a create or edit given an empty item list, an item
\* without a carton or a loose or auto item of quantity 0 or less ends with
\* an error before any persistence call.
C18_ValidationBeforeWrite ==
    /\ (op.kind \in {"create", "edit"} /\ op.err \in ValidationErrors) => NothingWritten
    /\ (op.kind \in {"create", "edit"} /\ InvalidRows(op.rows)) =>
          (op.pc = "failed" /\ NothingWritten)

\* a create or an edit of a session that already holds an order was refused
\* for an item without a carton or without a quantity
C18_Witness ==
    /\ op.kind \in {"create", "edit"} /\ op.pc = "failed"
    /\ op.err \in {ErrNoCarton, ErrQuantity}
    /\ InvalidRows(op.rows)
    /\ dbOrders # <<>>

\* one step of a handler around a failing persistence call: the call that
\* fails ends the handler with the error as its message and writes nothing,
\* and a handler that has ended with an error issues no call and writes
\* nothing more
HaltsAtFailure ==
    /\ (op.err = "" /\ op'.err = ErrPersistence) =>
          /\ op'.pc = "failed"
          /\ op'.kind = op.kind /\ op.kind \in {"create", "edit", "delete"}
          /\ Len(op'.calls) = Len(op.calls) + 1
          /\ UNCHANGED <<dbCartons, dbOrders>>
    /\ op.err # "" => op.pc = "failed"
    /\ op.pc = "failed" =>
          /\ op.err # ""
          /\ op' = OpIdle
          /\ UNCHANGED <<dbCartons, dbOrders, cartons, orders>>

\* C19: a persistence call that fails during create, edit or delete ends the
\* operation at that step with its error surfaced; no later persistence call
\* of that operation is issued.
C19_PersistenceFailureHalts == [][HaltsAtFailure]_vars

\* a handler has ended on a failed persistence call after earlier calls of
\* its own had succeeded
C19_Witness ==
    /\ op.pc = "failed" /\ op.err = ErrPersistence
    /\ Len(op.calls) >= 2
    /\ dbCartons # op.preCartons

\* the place of a persistence call in the steps of a create
CreateStepRank(name) ==
    CASE name = "orders.insert" -> 1
      [] name = "cartons.update.units" -> 2
      [] name = "cartons.update.booked" -> 3
      [] name = "storage.upload" -> 4
      [] name = "orders.update.invoice_url" -> 5
      [] OTHER -> 0

\* how many calls of this name the handler in flight has issued
CountCalls(name) == Cardinality({k \in DOMAIN op.calls : op.calls[k] = name})

\* C20: a create validates and expands its items and computes the totals
\* before the order insert, then issues the insert, the loose deductions, the
\* carton booking and the invoice calls in that order, each step after the
\* ones before it are complete; no carton row is written before the order is
\* stored.
C20_CreateStepOrder ==
    op.kind = "create" =>
        /\ \A k \in DOMAIN op.calls : CreateStepRank(op.calls[k]) > 0
        /\ \A k, l \in DOMAIN op.calls :
              k < l => /\ CreateStepRank(op.calls[k]) <= CreateStepRank(op.calls[l])
                       /\ (op.calls[k] = op.calls[l] => op.calls[k] = "cartons.update.units")
        /\ op.calls # <<>> => op.calls[1] = "orders.insert"
        /\ op.pc = "insert" =>
              /\ op.calls = <<>>
              /\ validateItems(op.rows, FALSE) = ""
              /\ op.payload = ItemsPayload(expandAutoItems(op.rows, op.snap, ProductList).items)
        /\ (Len(op.calls) > 1 \/ dbCartons # op.preCartons) =>
              /\ LiveOrder(op.order.id)
              /\ dbOrders[op.order.id].items = op.payload
              /\ dbOrders[op.order.id].subtotal = calcSubtotal(op.payload)
              /\ dbOrders[op.order.id].total_amount = calcSubtotal(op.payload) + op.fee
        /\ (op.pc \in {"book", "upload", "invoiceUrl", "done"}
              \/ CountCalls("cartons.update.booked") > 0) =>
              CountCalls("cartons.update.units")
                  = Cardinality(DOMAIN LooseAdjustments(<<>>, op.payload))
        /\ (op.pc \in {"upload", "invoiceUrl", "done"} \/ CountCalls("storage.upload") > 0) =>
              CountCalls("cartons.update.booked")
                  = (IF CartonModeIds(op.payload) = {} THEN 0 ELSE 1)

\* a create with a loose item and a carton-mode item has run all its steps
C20_Witness ==
    /\ op.kind = "create" /\ op.pc = "done"
    /\ CountCalls("cartons.update.units") >= 1
    /\ CountCalls("cartons.update.booked") = 1
    /\ Len(op.calls) >= 5

\* the place of a persistence call in the steps of a delete
DeleteStepRank(name) ==
    CASE name = "cartons.update.units" -> 1
      [] name = "cartons.update.received" -> 2
      [] name \in {"storage.remove", "storage.remove.failed"} -> 3
      [] name = "orders.delete" -> 4
      [] OTHER -> 0

\* C21: a delete reconciles the cartons against the line items the orders
\* table holds for the order (loose quantities returned, cartons unbooked)
\* before it deletes the order row, and goes on to the deletion when the
\* removal of the invoice file has failed.
C21_DeleteReconcilesStored ==
    op.kind = "delete" =>
        /\ op.prev = op.preOrders[op.order.id].items
        /\ \A k \in DOMAIN op.calls : DeleteStepRank(op.calls[k]) > 0
        /\ \A k, l \in DOMAIN op.calls :
              k < l => DeleteStepRank(op.calls[k]) <= DeleteStepRank(op.calls[l])
        /\ (op.pc \in {"delete", "done"} \/ CountCalls("orders.delete") > 0) =>
              /\ CountCalls("cartons.update.units")
                    = Cardinality(DOMAIN LooseAdjustments(op.prev, <<>>))
              /\ CountCalls("cartons.update.received")
                    = (IF CartonModeIds(op.prev) = {} THEN 0 ELSE 1)
        /\ CountCalls("storage.remove.failed") > 0 =>
              \/ op.pc \in {"delete", "done"}
              \/ op.pc = "failed" /\ op.calls[Len(op.calls)] = "orders.delete"

\* the ids of the cartons whose stored row the handler in flight has changed
WrittenIds ==
    {dbCartons[i].id : i \in {j \in DOMAIN dbCartons : dbCartons[j] # op.preCartons[j]}}

\* C22: when a create, an edit or a delete has succeeded, every carton it
\* wrote has in the in-memory carton list the status and units_remaining of
\* its stored row.
C22_SnapshotPatched ==
    (op.kind \in {"create", "edit", "delete"} /\ op.pc = "done") =>
        \A id \in WrittenIds :
            /\ RowOf(cartons, id).status = RowOf(dbCartons, id).status
            /\ RowOf(cartons, id).units_remaining = RowOf(dbCartons, id).units_remaining

\* C23: an edit that is saved diffs the new line items against the line
\* items the orders table held for the order just before the edit.
C23_EditDiffsStoredItems ==
    (op.kind = "edit" /\ CountCalls("orders.update") > 0) =>
        op.prev = op.preOrders[op.order.id].items

\* every item of the list has line_total = quantity * unit_price
LineTotalsHold(its) ==
    \A k \in DOMAIN its : its[k].line_total = its[k].quantity * its[k].unit_price

RECURSIVE SumOfLineTotals(_)
SumOfLineTotals(its) ==
    IF its = <<>> THEN 0 ELSE Head(its).line_total + SumOfLineTotals(Tail(its))

\* C24: every stored order has total_amount = subtotal + delivery_charge and
\* subtotal = the sum of the line_total of its items; every stored item and
\* every row of the two forms has line_total = quantity * unit_price.
C24_TotalsConsistent ==
    /\ \A i \in DOMAIN dbOrders :
          /\ dbOrders[i].total_amount = dbOrders[i].subtotal + dbOrders[i].delivery_charge
          /\ dbOrders[i].subtotal = SumOfLineTotals(dbOrders[i].items)
          /\ LineTotalsHold(dbOrders[i].items)
    /\ LineTotalsHold(items)
    /\ LineTotalsHold(edit.editItems)

\* an order is stored whose items came from an auto row and a row with a
\* typed unit price, with a delivery charge
C24_Witness ==
    /\ op.pc = "done"
    /\ \E k \in DOMAIN op.rows : op.rows[k].mode = "auto"
    /\ \E k \in DOMAIN op.rows : op.rows[k].unit_price \in EditorPrices /\ op.rows[k].quantity > 0
    /\ dbOrders[op.order.id].delivery_charge > 0
    /\ dbOrders[op.order.id].subtotal > 0

RECURSIVE HeldLoose(_, _)
\* the loose quantity the stored orders from position i on hold against a carton
HeldLoose(id, i) ==
    IF i > Len(dbOrders) THEN 0
    ELSE LooseTotal(dbOrders[i].items, id, 1) + HeldLoose(id, i + 1)

\* every operation of the session so far has succeeded: no persistence call
\* has failed and every stored order has got its invoice
AllSucceeded ==
    /\ op.pc = "done" /\ failures = 0
    /\ \A i \in DOMAIN dbOrders : LiveOrder(i) => dbOrders[i].invoice_url

\* C25: after operations that all succeeded, the stored units_remaining of
\* each carton plus the loose quantity the stored orders hold against it is
\* the units_remaining the carton had when the session started.
C25_UnitsConserved ==
    AllSucceeded =>
        \A i \in DOMAIN dbCartons :
            dbCartons[i].units_remaining + HeldLoose(dbCartons[i].id, 1)
                = InitCartons[i].units_remaining

\* C26: in the line items of a stored order no carton id is in more than one
\* item.
C26_NoCartonTwiceInOrder ==
    \A i \in DOMAIN dbOrders :
        \A k, l \in DOMAIN dbOrders[i].items :
            k # l => dbOrders[i].items[k].carton_id # dbOrders[i].items[l].carton_id

\* C27: an edit saved with line items identical to the line items the order
\* had before leaves the stored status and units_remaining of every carton
\* as they were.
C27_IdenticalEditChangesNothing ==
    (/\ op.kind = "edit" /\ CountCalls("orders.update") > 0
     /\ op.payload = op.preOrders[op.order.id].items
     /\ op.payload = op.prev) =>
        \A i \in DOMAIN dbCartons :
            /\ dbCartons[i].status = op.preCartons[i].status
            /\ dbCartons[i].units_remaining = op.preCartons[i].units_remaining

\* the delete in flight repeats a delete of the same order that a failed
\* persistence call ended
RepeatsDelete ==
    op.kind = "delete" /\ retry.kind = "delete" /\ retry.id = op.order.id

\* the attempt that failed had written loose quantities back: a units update
\* precedes its failed call
ReturnedBefore ==
    \E k \in 1..(Len(retry.calls) - 1) : retry.calls[k] = "cartons.update.units"

\* C28: the loose quantities of an order are written back to the cartons at
\* most once: a delete that repeats an attempt which had written them back
\* issues no units update.
C28_LooseReturnedOnce ==
    (RepeatsDelete /\ ReturnedBefore) => CountCalls("cartons.update.units") = 0

(***************************************************************************)
(* SpecInventory: the session loaded with one stored order, one run of a   *)
(* handler of the orders view, and the inventory view (Inventory.js)       *)
(* saving a new status for a carton at any moment.                         *)
(***************************************************************************)
\* the statuses the inventory workflows set and the orders view never does
InventoryStatuses == {"shipped", "delivered"}

\* handleUpdateCarton, Inventory.js:531-604, with the form's other fields
\* left as loaded: the cartons row gets the status chosen.  The carton list
\* of the orders view is another component's state and is not patched.
InventoryUpdateCarton ==
    /\ \E i \in DOMAIN dbCartons, status \in InventoryStatuses :
          /\ dbCartons[i].units_remaining # 0
          /\ dbCartons[i].status # status
          /\ dbCartons' = WithStatus(dbCartons, {dbCartons[i].id}, status)
    /\ UNCHANGED <<dbOrders, cartons, orders, items, edit, op>>
    /\ UNCHANGED <<pureVars, budgetVars>>

InventoryInit ==
    /\ sel = [cands |-> <<>>, desired |-> 0, result |-> NullSelection, done |-> FALSE]
    /\ exp = [stage |-> "idle", rows |-> <<>>, cartons |-> <<>>,
              out |-> [err |-> "", items |-> <<>>],
              again |-> [err |-> "", items |-> <<>>]]
    /\ dbCartons = LoadedCartons /\ cartons = LoadedCartons
    /\ dbOrders = <<LoadedOrder>> /\ orders = <<LoadedOrder>>
    /\ items = <<BlankRow>>
    /\ edit = EditClosed
    /\ op = OpIdle
    /\ failures = MaxFailures
    /\ runs = MaxRuns - 1
    /\ retry = NoRetry

NextInventory ==
    \/ Next
    \/ InventoryUpdateCarton

SpecInventory == InventoryInit /\ [][NextInventory]_vars

\* a step of an edit or a delete leaves the stored status of every carton
\* that is shipped or delivered as it is
KeepsShipped ==
    (op.kind \in {"edit", "delete"} /\ op' # op) =>
        \A i \in DOMAIN dbCartons :
            dbCartons[i].status \in InventoryStatuses =>
                dbCartons'[i].status = dbCartons[i].status

\* C29: deleting an order or editing a carton out of it never changes the
\* stored status of a carton that is shipped or delivered at that moment.
C29_ShippedUntouched == [][KeepsShipped]_vars

\* a loose row of the create form with a carton selected holds an open,
\* received carton of the snapshot and a quantity from 1 to its units
LooseRowWithinStock(row) ==
    (row.mode = "loose" /\ row.carton_id # 0) =>
        /\ HasCarton(cartons, row.carton_id)
        /\ FindCarton(cartons, row.carton_id).status = "received"
        /\ FindCarton(cartons, row.carton_id).is_open
        /\ 1 <= row.quantity
        /\ row.quantity <= Units(FindCarton(cartons, row.carton_id))

\* C30: while the editor of the create form can be used, every loose row
\* with a carton selected is within the stock of an open, received carton of
\* the snapshot, and a create that has passed its checks asks of no carton
\* more loose units than the snapshot holds for it.
C30_LooseRowsWithinStock ==
    /\ (op.kind = "none" /\ ~edit.open) =>
          \A k \in DOMAIN items : LooseRowWithinStock(items[k])
    /\ (op.kind = "create" /\ op.pc = "insert") =>
          \A i \in DOMAIN op.snap :
              LooseTotal(op.payload, op.snap[i].id, 1) <= Units(op.snap[i])

====
